---- MODULE Spec2Model ----
(***************************************************************************)
(* Model of the dioxus-terminal widget (src/src/widget.rs): the terminal   *)
(* state shared between the renderer and the PTY polling coroutine, the    *)
(* byte-level escape-sequence parser process_byte, the SGR attribute       *)
(* resolver process_sgr, the 256-colour palette, scroll_up, the key        *)
(* handler with key_to_string, and the render of the grid.                 *)
(*                                                                         *)
(* Bytes are the integers 0..255.  A char is its code point, so            *)
(* `byte as char` maps the byte n to the code point n.  A Color is the     *)
(* triple <<r, g, b>>.  A usize is held as its residue modulo 2^64 with    *)
(* the representative -1 standing for 2^64 - 1, the only value above the   *)
(* 16-bit range that the code can produce (by `0 - 1`).                    *)
(***************************************************************************)
EXTENDS Integers, Sequences, FiniteSets, TLC

VARIABLES
    rows,            \* props.rows as usize
    cols,            \* props.cols as usize
    overflow_checks, \* the build: TRUE panics on integer overflow, FALSE wraps
    pty,             \* TermState.pty: "Some" or "None"
    child,           \* what the child process has still to write to the pty
    state,           \* TermState without its pty field
    grid,            \* Signal<Grid>
    pc,              \* position of the polling coroutine
    data,            \* the chunk try_read returned (<<>> for None)
    hist,            \* history: one record per byte handed to process_byte
    seq_split,       \* history: a chunk has ended inside an escape sequence
    read_log,        \* history: the bytes try_read has returned, in order
    lock,            \* who holds the Mutex around TermState
    closed,          \* the child has exited and the transport is closed
    key,             \* history: the last key event and what onkeydown did with it
    snapshot         \* what the last render read from the grid signal

vars == <<rows, cols, overflow_checks, pty, child, state, grid, pc, data, hist, seq_split,
          read_log,
          lock, closed, key, snapshot>>

\* the variables of the key handler and the renderer
uivars == <<closed, key, snapshot>>

(***************************************************************************)
(* Bounds of the model                                                     *)
(***************************************************************************)
MaxStream == 3   \* length of the freely chosen child output streams
MaxChunk == 2    \* longest chunk one try_read returns
MaxApply == 2    \* applications of process_sgr in SpecSgr

(***************************************************************************)
(* Bytes named by the parser                                               *)
(***************************************************************************)
ESC == 27
NL == 10
CR == 13
BS == 8
TAB == 9
BEL == 7
DEL == 127
LBRACKET == 91
SEMICOLON == 59
PLUS == 43
LOWER_M == 109
SPACE == 32
REPLACEMENT == 65533

Min(a, b) == IF a <= b THEN a ELSE b

(***************************************************************************)
(* usize arithmetic.  -1 represents usize::MAX.                            *)
(***************************************************************************)
USIZE_MAX == -1

\* a >= b on usize
UGe(a, b) ==
    IF a = USIZE_MAX THEN TRUE
    ELSE IF b = USIZE_MAX THEN FALSE
    ELSE a >= b

\* usize::min
UMin(a, b) == IF UGe(a, b) THEN b ELSE a

\* x - 1 on usize: the wrapped value and whether it underflowed
USub1(x) == [val |-> x - 1, over |-> x = 0]

\* x + 1 on usize: the wrapped value and whether it overflowed
UAdd1(x) == [val |-> x + 1, over |-> x = USIZE_MAX]

(***************************************************************************)
(* Color, Style, Cell, Grid (crate::term)                                  *)
(***************************************************************************)
DefaultFg == <<204, 204, 204>>
DefaultBg == <<0, 0, 0>>

DefaultStyle ==
    [bold |-> FALSE, dim |-> FALSE, italic |-> FALSE, underline |-> FALSE,
     strikethrough |-> FALSE, inverse |-> FALSE]

DefaultCell == [c |-> SPACE, fg |-> DefaultFg, bg |-> DefaultBg, style |-> DefaultStyle]

\* Grid::new(rows, cols): every position holds the default Cell
GridNew(r, c) == [p \in (0 .. r - 1) \X (0 .. c - 1) |-> DefaultCell]

\* Grid::get is Some exactly for the positions of the grid
GridHas(g, r, c) == <<r, c>> \in DOMAIN g

\* Grid::set writes in range and is a no-op out of range
GridSet(g, r, c, cell) ==
    IF GridHas(g, r, c) THEN [g EXCEPT ![<<r, c>>] = cell] ELSE g

(***************************************************************************)
(* color_from_256: 256-colour palette index to RGB                         *)
(***************************************************************************)
\* u8 arithmetic of a build without overflow checks: the result modulo 2^8
U8(x) == x % 256

\* to_255 on the linear ramp 0, 51, 102, ... of other palettes
to_255_linear(v) == U8(v * 51)

\* the closure to_255 of the colour cube
to_255(v) == IF v = 0 THEN 0 ELSE U8(55 + U8(v * 40))

color_from_256(n) ==
    CASE n = 0 -> <<0, 0, 0>>
      [] n = 1 -> <<205, 49, 49>>
      [] n = 2 -> <<13, 188, 121>>
      [] n = 3 -> <<229, 229, 16>>
      [] n = 4 -> <<36, 114, 200>>
      [] n = 5 -> <<188, 63, 188>>
      [] n = 6 -> <<17, 168, 205>>
      [] n = 7 -> <<229, 229, 229>>
      [] n = 8 -> <<102, 102, 102>>
      [] n = 9 -> <<241, 76, 76>>
      [] n = 10 -> <<35, 209, 139>>
      [] n = 11 -> <<245, 245, 67>>
      [] n = 12 -> <<59, 142, 234>>
      [] n = 13 -> <<214, 112, 214>>
      [] n = 14 -> <<41, 184, 219>>
      [] n = 15 -> <<255, 255, 255>>
      [] n >= 16 /\ n <= 231 ->
            LET m == n - 16
                r == (m \div 36) % 6
                g == (m \div 6) % 6
                b == m % 6
            IN  <<to_255(r), to_255(g), to_255(b)>>
      [] n >= 232 /\ n <= 255 ->
            LET gray == U8(8 + U8(U8(n - 232) * 10))
            IN  <<gray, gray, gray>>

(***************************************************************************)
(* process_sgr: Select Graphic Rendition                                   *)
(***************************************************************************)
\* String::from_utf8_lossy: ASCII bytes are kept; a byte >= 0x80 becomes a
\* non-ASCII char (U+FFFD, or part of a multi-byte char), never a digit,
\* a sign or ';'
from_utf8_lossy(buf) ==
    [i \in 1 .. Len(buf) |-> IF buf[i] < 128 THEN buf[i] ELSE REPLACEMENT]

\* str::split(';'): the segments between the separators, empty ones included
RECURSIVE SplitAcc(_, _, _)
SplitAcc(rest, cur, acc) ==
    IF rest = <<>> THEN Append(acc, cur)
    ELSE IF Head(rest) = SEMICOLON
         THEN SplitAcc(Tail(rest), <<>>, Append(acc, cur))
         ELSE SplitAcc(Tail(rest), Append(cur, Head(rest)), acc)

split(str) == SplitAcc(str, <<>>, <<>>)

\* the digit loop of u8::from_str: checked multiply and add, -1 for an error
RECURSIVE DigitsU8(_, _)
DigitsU8(digits, acc) ==
    IF digits = <<>> THEN acc
    ELSE LET d == Head(digits)
         IN  IF d < 48 \/ d > 57 THEN -1
             ELSE IF acc * 10 + (d - 48) > 255 THEN -1
             ELSE DigitsU8(Tail(digits), acc * 10 + (d - 48))

\* str::parse::<u8>: -1 for Err.  One leading '+' is accepted, '-' is not.
parse_u8(seg) ==
    IF seg = <<>> THEN -1
    ELSE IF Len(seg) = 1 /\ seg[1] = PLUS THEN -1
    ELSE IF seg[1] = PLUS THEN DigitsU8(Tail(seg), 0)
    ELSE DigitsU8(seg, 0)

\* filter_map(|s| s.parse().ok()): unparsable segments are dropped
RECURSIVE filter_map_parse(_)
filter_map_parse(segs) ==
    IF segs = <<>> THEN <<>>
    ELSE LET v == parse_u8(Head(segs))
             rest == filter_map_parse(Tail(segs))
         IN  IF v = -1 THEN rest ELSE <<v>> \o rest

\* the parameter list of process_sgr
sgr_params(buf) ==
    LET params_str == from_utf8_lossy(buf)
    IN  IF params_str = <<>> THEN <<0>>
        ELSE filter_map_parse(split(params_str))

\* the literal colours of codes 30-37, 40-47, 90-97 and 100-107
SgrFgStandard ==
    <<  <<0, 0, 0>>, <<205, 49, 49>>, <<13, 188, 121>>, <<229, 229, 16>>,
        <<36, 114, 200>>, <<188, 63, 188>>, <<17, 168, 205>>, <<229, 229, 229>> >>

SgrBgStandard ==
    <<  <<0, 0, 0>>, <<205, 49, 49>>, <<13, 188, 121>>, <<229, 229, 16>>,
        <<36, 114, 200>>, <<188, 63, 188>>, <<17, 168, 205>>, <<229, 229, 229>> >>

SgrFgBright ==
    <<  <<102, 102, 102>>, <<241, 76, 76>>, <<35, 209, 139>>, <<245, 245, 67>>,
        <<59, 142, 234>>, <<214, 112, 214>>, <<41, 184, 219>>, <<255, 255, 255>> >>

SgrBgBright ==
    <<  <<102, 102, 102>>, <<241, 76, 76>>, <<35, 209, 139>>, <<245, 245, 67>>,
        <<59, 142, 234>>, <<214, 112, 214>>, <<41, 184, 219>>, <<255, 255, 255>> >>

\* sgr_reset with the underline flag forgotten
sgr_reset_keeps_underline(s) ==
    [s EXCEPT !.fg = DefaultFg, !.bg = DefaultBg, !.bold = FALSE, !.dim = FALSE,
              !.italic = FALSE]

\* code 0: reset all attributes
sgr_reset(s) ==
    [s EXCEPT !.fg = DefaultFg, !.bg = DefaultBg, !.bold = FALSE, !.dim = FALSE,
              !.italic = FALSE, !.underline = FALSE]

\* one arm of the match on params[i] for the codes that take no extra
\* parameter
sgr_code(s, p) ==
    CASE p = 0 -> sgr_reset(s)
      [] p = 1 -> [s EXCEPT !.bold = TRUE]
      [] p = 2 -> [s EXCEPT !.dim = TRUE]
      [] p = 3 -> [s EXCEPT !.italic = TRUE]
      [] p = 4 -> [s EXCEPT !.underline = TRUE]
      [] p = 22 -> [s EXCEPT !.bold = FALSE, !.dim = FALSE]
      [] p = 23 -> [s EXCEPT !.italic = FALSE]
      [] p = 24 -> [s EXCEPT !.underline = FALSE]
      [] p >= 30 /\ p <= 37 -> [s EXCEPT !.fg = SgrFgStandard[p - 30 + 1]]
      [] p = 39 -> [s EXCEPT !.fg = DefaultFg]
      [] p >= 40 /\ p <= 47 -> [s EXCEPT !.bg = SgrBgStandard[p - 40 + 1]]
      [] p = 49 -> [s EXCEPT !.bg = DefaultBg]
      [] p >= 90 /\ p <= 97 -> [s EXCEPT !.fg = SgrFgBright[p - 90 + 1]]
      [] p >= 100 /\ p <= 107 -> [s EXCEPT !.bg = SgrBgBright[p - 100 + 1]]
      [] OTHER -> s

\* sgr_loop with `i += 2` moved out of the `if`: a 38 or 48 that is not
\* honoured still swallows the two parameters after it
RECURSIVE sgr_loop_skip(_, _, _)
sgr_loop_skip(s, params, i) ==
    IF ~(i < Len(params)) THEN s
    ELSE LET p == params[i + 1]
         IN  IF p = 38
             THEN IF i + 2 < Len(params) /\ params[i + 2] = 5
                  THEN sgr_loop_skip([s EXCEPT !.fg = color_from_256(params[i + 3])],
                                     params, i + 2 + 1)
                  ELSE sgr_loop_skip(s, params, i + 2 + 1)
             ELSE IF p = 48
             THEN IF i + 2 < Len(params) /\ params[i + 2] = 5
                  THEN sgr_loop_skip([s EXCEPT !.bg = color_from_256(params[i + 3])],
                                     params, i + 2 + 1)
                  ELSE sgr_loop_skip(s, params, i + 2 + 1)
             ELSE sgr_loop_skip(sgr_code(s, p), params, i + 1)

\* while i < params.len() { match params[i] { ... } i += 1 }  (i counts from 0)
RECURSIVE sgr_loop(_, _, _)
sgr_loop(s, params, i) ==
    IF ~(i < Len(params)) THEN s
    ELSE LET p == params[i + 1]
         IN  IF p = 38
             THEN IF i + 2 < Len(params) /\ params[i + 2] = 5
                  THEN sgr_loop([s EXCEPT !.fg = color_from_256(params[i + 3])],
                                params, i + 2 + 1)
                  ELSE sgr_loop(s, params, i + 1)
             ELSE IF p = 48
             THEN IF i + 2 < Len(params) /\ params[i + 2] = 5
                  THEN sgr_loop([s EXCEPT !.bg = color_from_256(params[i + 3])],
                                params, i + 2 + 1)
                  ELSE sgr_loop(s, params, i + 1)
             ELSE sgr_loop(sgr_code(s, p), params, i + 1)

process_sgr(s) == sgr_loop(s, sgr_params(s.escape_buf), 0)

(***************************************************************************)
(* scroll_up: scroll the grid up by one line                               *)
(***************************************************************************)
\* for row in 1..rows { for col in 0..cols { copy (row, col) to (row-1, col) } }
RECURSIVE scroll_shift(_, _, _, _, _)
scroll_shift(g, row, col, rws, cls) ==
    IF ~(row < rws) THEN g
    ELSE IF ~(col < cls) THEN scroll_shift(g, row + 1, 0, rws, cls)
    ELSE scroll_shift(IF GridHas(g, row, col)
                      THEN GridSet(g, row - 1, col, g[<<row, col>>])
                      ELSE g,
                      row, col + 1, rws, cls)

\* for col in 0..cols { g.set(last, col, Cell::default()) }
RECURSIVE scroll_clear(_, _, _, _)
scroll_clear(g, last, col, cls) ==
    IF ~(col < cls) THEN g
    ELSE scroll_clear(GridSet(g, last, col, DefaultCell), last, col + 1, cls)

\* scroll_up without the loop that clears the last row
scroll_up_noclear(g, rws, cls, checks) ==
    [grid |-> scroll_shift(g, 1, 0, rws, cls), panic |-> FALSE, underflow |-> FALSE]

\* The result is the grid, whether `rows - 1` underflowed, and whether the
\* build panicked there (the rows are then shifted, the last row not cleared).
scroll_up(g, rws, cls, checks) ==
    LET shifted == scroll_shift(g, 1, 0, rws, cls)
        last == USub1(rws)
        under == cls > 0 /\ last.over
    IN  IF under /\ checks
        THEN [grid |-> shifted, panic |-> TRUE, underflow |-> TRUE]
        ELSE [grid |-> scroll_clear(shifted, last.val, 0, cls),
              panic |-> FALSE, underflow |-> under]

(***************************************************************************)
(* process_byte: process a single byte of terminal output                  *)
(***************************************************************************)
is_ascii_alphabetic(byte) ==
    (byte >= 65 /\ byte <= 90) \/ (byte >= 97 /\ byte <= 122)

\* the printable arm of the match: 0x20..=0x7e | 0x80..=0xff
is_printable(byte) ==
    (byte >= 32 /\ byte <= 126) \/ (byte >= 128 /\ byte <= 255)

\* The outcome of process_byte: the state and grid it leaves, whether an
\* integer operation overflowed, and whether the build panicked there.
Outcome(s, g, panic, underflow) ==
    [state |-> s, grid |-> g, panic |-> panic, underflow |-> underflow]

\* next_row without `state.cursor_row = rows - 1` after the scroll
next_row_noclamp(s, g, rws, cls, checks) ==
    LET s1 == [s EXCEPT !.cursor_row = s.cursor_row + 1]
    IN  IF ~UGe(s1.cursor_row, rws) THEN Outcome(s1, g, FALSE, FALSE)
        ELSE LET sc == scroll_up(g, rws, cls, checks)
             IN  Outcome(s1, sc.grid, sc.panic, sc.underflow)

\* state.cursor_row += 1;
\* if state.cursor_row >= rows { scroll_up(grid, rows, cols); state.cursor_row = rows - 1; }
next_row(s, g, rws, cls, checks) ==
    LET inc == UAdd1(s.cursor_row)
        s1 == [s EXCEPT !.cursor_row = inc.val]
    IN  IF inc.over /\ checks THEN Outcome(s, g, TRUE, TRUE)
        ELSE IF ~UGe(s1.cursor_row, rws) THEN Outcome(s1, g, FALSE, inc.over)
        ELSE LET sc == scroll_up(g, rws, cls, checks)
                 last == USub1(rws)
             IN  IF sc.panic THEN Outcome(s1, sc.grid, TRUE, TRUE)
                 ELSE IF last.over /\ checks THEN Outcome(s1, sc.grid, TRUE, TRUE)
                 ELSE Outcome([s1 EXCEPT !.cursor_row = last.val], sc.grid, FALSE,
                              inc.over \/ sc.underflow \/ last.over)

\* cell_of that shows bold text in inverse video
cell_of_inverse(s, byte) ==
    [c |-> byte, fg |-> s.fg, bg |-> s.bg,
     style |-> [bold |-> s.bold, dim |-> s.dim, italic |-> s.italic,
                underline |-> s.underline, strikethrough |-> FALSE,
                inverse |-> s.bold]]

\* cell_of that ignores the current colours
cell_of_plain(s, byte) ==
    [c |-> byte, fg |-> DefaultFg, bg |-> DefaultBg,
     style |-> [bold |-> s.bold, dim |-> s.dim, italic |-> s.italic,
                underline |-> s.underline, strikethrough |-> FALSE,
                inverse |-> FALSE]]

\* the Cell a printable byte writes
cell_of(s, byte) ==
    [c |-> byte, fg |-> s.fg, bg |-> s.bg,
     style |-> [bold |-> s.bold, dim |-> s.dim, italic |-> s.italic,
                underline |-> s.underline, strikethrough |-> FALSE,
                inverse |-> FALSE]]

\* tab_byte without the clamp to cols - 1
tab_byte_noclamp(s, g, cls, checks) ==
    Outcome([s EXCEPT !.cursor_col = (s.cursor_col \div 8 + 1) * 8], g, FALSE, FALSE)

\* the tab arm: next multiple of 8, clamped to cols - 1
tab_byte(s, g, cls, checks) ==
    LET next_tab == (s.cursor_col \div 8 + 1) * 8
        last == USub1(cls)
    IN  IF last.over /\ checks THEN Outcome(s, g, TRUE, TRUE)
        ELSE Outcome([s EXCEPT !.cursor_col = UMin(next_tab, last.val)],
                     g, FALSE, last.over)

\* printable_byte that wraps one column late (`>` for `>=`)
printable_byte_late_wrap(s, g, byte, rws, cls, checks) ==
    LET g1 == GridSet(g, s.cursor_row, s.cursor_col, cell_of(s, byte))
        s1 == [s EXCEPT !.cursor_col = s.cursor_col + 1]
    IN  IF s1.cursor_col > cls
        THEN next_row([s1 EXCEPT !.cursor_col = 0], g1, rws, cls, checks)
        ELSE Outcome(s1, g1, FALSE, FALSE)

\* the printable arm: write the Cell, advance, wrap and scroll
printable_byte(s, g, byte, rws, cls, checks) ==
    LET g1 == GridSet(g, s.cursor_row, s.cursor_col, cell_of(s, byte))
        s1 == [s EXCEPT !.cursor_col = s.cursor_col + 1]
    IN  IF UGe(s1.cursor_col, cls)
        THEN next_row([s1 EXCEPT !.cursor_col = 0], g1, rws, cls, checks)
        ELSE Outcome(s1, g1, FALSE, FALSE)

\* EscapeState::Normal
process_normal(s, g, byte, rws, cls, checks) ==
    IF byte = ESC
    THEN Outcome([s EXCEPT !.escape_state = "Escape", !.escape_buf = <<>>],
                 g, FALSE, FALSE)
    ELSE IF byte = NL THEN next_row(s, g, rws, cls, checks)
    ELSE IF byte = CR THEN Outcome([s EXCEPT !.cursor_col = 0], g, FALSE, FALSE)
    ELSE IF byte = BS
    THEN Outcome(IF s.cursor_col > 0
                 THEN [s EXCEPT !.cursor_col = s.cursor_col - 1]
                 ELSE s,
                 g, FALSE, FALSE)
    ELSE IF byte = TAB THEN tab_byte(s, g, cls, checks)
    ELSE IF byte = BEL THEN Outcome(s, g, FALSE, FALSE)
    ELSE IF is_printable(byte) THEN printable_byte(s, g, byte, rws, cls, checks)
    ELSE Outcome(s, g, FALSE, FALSE)

\* process_escape in which an ESC restarts the sequence
process_escape_restart(s, byte) ==
    IF byte = LBRACKET
    THEN [s EXCEPT !.escape_state = "Csi"]
    ELSE IF byte = ESC THEN s
    ELSE [s EXCEPT !.escape_state = "Normal"]

\* EscapeState::Escape
process_escape(s, byte) ==
    IF byte = LBRACKET
    THEN [s EXCEPT !.escape_state = "Csi"]
    ELSE [s EXCEPT !.escape_state = "Normal"]

\* process_csi without `escape_buf.clear()` after the terminator
process_csi_noclear(s, byte) ==
    IF is_ascii_alphabetic(byte)
    THEN LET s1 == IF byte = LOWER_M THEN process_sgr(s) ELSE s
         IN  [s1 EXCEPT !.escape_state = "Normal"]
    ELSE [s EXCEPT !.escape_buf = Append(s.escape_buf, byte)]

\* process_csi that implements CSI H (cursor home)
process_csi_home(s, byte) ==
    IF is_ascii_alphabetic(byte)
    THEN LET s1 == IF byte = LOWER_M THEN process_sgr(s)
                   ELSE IF byte = 72 THEN [s EXCEPT !.cursor_row = 0, !.cursor_col = 0]
                   ELSE s
         IN  [s1 EXCEPT !.escape_state = "Normal", !.escape_buf = <<>>]
    ELSE [s EXCEPT !.escape_buf = Append(s.escape_buf, byte)]

\* EscapeState::Csi
process_csi(s, byte) ==
    IF is_ascii_alphabetic(byte)
    THEN LET s1 == IF byte = LOWER_M THEN process_sgr(s) ELSE s
         IN  [s1 EXCEPT !.escape_state = "Normal", !.escape_buf = <<>>]
    ELSE [s EXCEPT !.escape_buf = Append(s.escape_buf, byte)]

process_byte(s, g, byte, rws, cls, checks) ==
    CASE s.escape_state = "Normal" -> process_normal(s, g, byte, rws, cls, checks)
      [] s.escape_state = "Escape" -> Outcome(process_escape(s, byte), g, FALSE, FALSE)
      [] s.escape_state = "Csi" -> Outcome(process_csi(s, byte), g, FALSE, FALSE)

\* for byte in bytes { process_byte(&mut s, &mut grid, byte, rows, cols); }
\* A panic ends the loop.
RECURSIVE process_chunk(_, _, _, _, _, _)
process_chunk(s, g, bytes, rws, cls, checks) ==
    IF bytes = <<>> THEN Outcome(s, g, FALSE, FALSE)
    ELSE LET r == process_byte(s, g, Head(bytes), rws, cls, checks)
         IN  IF r.panic THEN r
             ELSE LET rest == process_chunk(r.state, r.grid, Tail(bytes), rws, cls, checks)
                  IN  Outcome(rest.state, rest.grid, rest.panic,
                              r.underflow \/ rest.underflow)

(***************************************************************************)
(* The session: Terminal component, its state hook and polling coroutine   *)
(***************************************************************************)
\* the TermState built by the state hook
FreshState ==
    [cursor_row |-> 0, cursor_col |-> 0,
     fg |-> DefaultFg, bg |-> DefaultBg,
     bold |-> FALSE, dim |-> FALSE, italic |-> FALSE, underline |-> FALSE,
     escape_state |-> "Normal", escape_buf |-> <<>>]

\* the rows and cols props the sessions of the model are built with
Sizes == {<<0, 0>>, <<0, 1>>, <<1, 0>>, <<1, 1>>, <<2, 2>>, <<3, 2>>}

\* the bytes the freely chosen output streams are made of
Bytes == {ESC, LBRACKET, LOWER_M, 72, SEMICOLON, 49, NL, CR, BS, TAB, 65}

SeqsUpTo(S, n) == UNION {[1 .. m -> S] : m \in 0 .. n}

\* longer outputs of a child process
Scripts ==
    {   <<ESC, LBRACKET, 51, 49, LOWER_M, 65>>,      \* ESC [ 3 1 m A
        <<65, ESC, LBRACKET, 50, 74, 66>>,           \* A ESC [ 2 J B
        <<ESC, LBRACKET, 49, LOWER_M, 65, ESC, LBRACKET, 72>>,  \* ESC[1m A ESC[H
        <<NL, 65, NL, BS, 66, NL>>,                  \* \n A \n \b B \n
        <<65, 66, 67, 68, 69, 70, 71>>,              \* A B C D E F G
        <<ESC, ESC, LBRACKET, 65>>,                  \* ESC ESC [ A
        <<65, 66, TAB, 67, BS, 68>>,                 \* A B \t C \b D
        <<65, CR, 66, 67, NL, CR, 68>>,              \* A \r B C \n \r D
        <<0, 233, BEL, 127, 255>>                    \* NUL 0xE9 BEL DEL 0xFF
    }

\* The child process: one that writes a script (rest), or one that writes any
\* bytes of Bytes, at most `free` of them.
Children ==
    {[rest |-> s, free |-> 0] : s \in Scripts} \cup {[rest |-> <<>>, free |-> MaxStream]}

NoChild == [rest |-> <<>>, free |-> 0]

\* no key has been pressed yet
NoKey == [evt |-> [key |-> "None", c |-> <<>>, ctrl |-> FALSE], locked |-> FALSE, wrote |-> <<>>, result |-> "none",
          reported |-> FALSE]

\* nothing has been rendered yet
NoSnapshot == [rendered |-> FALSE, grid |-> <<>>, held |-> "free"]

\* the Mutex is free, the transport open, no key pressed, nothing rendered
UiInit ==
    /\ lock = "free"
    /\ closed = FALSE
    /\ key = NoKey
    /\ snapshot = NoSnapshot

Init ==
    /\ \E size \in Sizes : rows = size[1] /\ cols = size[2]
    /\ overflow_checks \in BOOLEAN
    /\ pty \in {"Some", "None"}
    /\ child \in (IF pty = "Some" THEN Children ELSE {NoChild})
    /\ state = FreshState
    /\ grid = GridNew(rows, cols)
    /\ pc = "read"
    /\ data = <<>>
    /\ hist = <<>>
    /\ seq_split = FALSE
    /\ read_log = <<>>
    /\ UiInit

\* Pty::try_read: nothing, or a chunk of the bytes the child has written
try_read ==
    {<<>>}
    \cup {SubSeq(child.rest, 1, n) : n \in 1 .. Min(Len(child.rest), MaxChunk)}
    \cup (SeqsUpTo(Bytes, Min(child.free, MaxChunk)) \ {<<>>})

\* the child after the pty has handed out a chunk of its output
after_read(chunk) ==
    IF child.rest # <<>>
    THEN [child EXCEPT !.rest = SubSeq(child.rest, Len(chunk) + 1, Len(child.rest))]
    ELSE [child EXCEPT !.free = child.free - Len(chunk)]

\* PollTryRead that starts every chunk with a fresh parser
PollTryRead_reset ==
    /\ pc = "read"
    /\ lock = "free"
    /\ \E chunk \in (IF pty = "Some" THEN try_read ELSE {<<>>}) :
          /\ data' = chunk
          /\ read_log' = read_log \o chunk
          /\ child' = after_read(chunk)
          /\ pc' = IF chunk = <<>> THEN "sleep" ELSE "process"
          /\ lock' = IF chunk = <<>> THEN "free" ELSE "poll"
    /\ state' = [state EXCEPT !.escape_state = "Normal", !.escape_buf = <<>>]
    /\ UNCHANGED <<rows, cols, overflow_checks, pty, grid, hist, seq_split, uivars>>

\* let data = { lock; if let Some(pty) = s.pty { pty.try_read() } else { None } };
\* The guard is dropped at the end of the block; `if let Some(bytes) = data`
\* then takes the lock again for the whole chunk.
PollTryRead ==
    /\ pc = "read"
    /\ lock = "free"
    /\ \E chunk \in (IF pty = "Some" THEN try_read ELSE {<<>>}) :
          /\ data' = chunk
          /\ read_log' = read_log \o chunk
          /\ child' = after_read(chunk)
          /\ pc' = IF chunk = <<>> THEN "sleep" ELSE "process"
          /\ lock' = IF chunk = <<>> THEN "free" ELSE "poll"
    /\ UNCHANGED <<rows, cols, overflow_checks, pty, state, grid, hist, seq_split, uivars>>

\* PollProcessByte whose guard of the Mutex outlives the chunk: it is still held
\* when the coroutine sleeps
PollProcessByte_hold ==
    /\ pc = "process"
    /\ lock = "poll"
    /\ data # <<>>
    /\ LET byte == Head(data)
           r == process_byte(state, grid, byte, rows, cols, overflow_checks)
       IN  /\ state' = r.state
           /\ grid' = r.grid
           /\ data' = Tail(data)
           /\ hist' = Append(hist, [byte |-> byte, state |-> state, grid |-> grid,
                                    underflow |-> r.underflow])
           /\ seq_split' = (seq_split \/ (~r.panic /\ Tail(data) = <<>>
                                       /\ r.state.escape_state # "Normal"))
           /\ pc' = IF r.panic THEN "panicked"
                    ELSE IF Tail(data) = <<>> THEN "sleep" ELSE "process"
           /\ lock' = IF r.panic THEN "poisoned" ELSE "poll"
    /\ UNCHANGED <<rows, cols, overflow_checks, pty, child, read_log, uivars>>

\* PollProcessByte that leaves the loop after the first byte of a chunk
PollProcessByte_first ==
    /\ pc = "process"
    /\ lock = "poll"
    /\ data # <<>>
    /\ LET byte == Head(data)
           r == process_byte(state, grid, byte, rows, cols, overflow_checks)
       IN  /\ state' = r.state
           /\ grid' = r.grid
           /\ data' = <<>>
           /\ hist' = Append(hist, [byte |-> byte, state |-> state, grid |-> grid,
                                    underflow |-> r.underflow])
           /\ seq_split' = (seq_split \/ (~r.panic /\ r.state.escape_state # "Normal"))
           /\ pc' = IF r.panic THEN "panicked" ELSE "sleep"
           /\ lock' = IF r.panic THEN "poisoned" ELSE "free"
    /\ UNCHANGED <<rows, cols, overflow_checks, pty, child, read_log, uivars>>

\* one iteration of `for byte in bytes { process_byte(...) }`, under the lock;
\* drop(s) after the last byte.  A panic leaves the Mutex poisoned.
PollProcessByte ==
    /\ pc = "process"
    /\ lock = "poll"
    /\ data # <<>>
    /\ LET byte == Head(data)
           r == process_byte(state, grid, byte, rows, cols, overflow_checks)
       IN  /\ state' = r.state
           /\ grid' = r.grid
           /\ data' = Tail(data)
           /\ hist' = Append(hist, [byte |-> byte, state |-> state, grid |-> grid,
                                    underflow |-> r.underflow])
           /\ seq_split' = (seq_split \/ (~r.panic /\ Tail(data) = <<>>
                                       /\ r.state.escape_state # "Normal"))
           /\ pc' = IF r.panic THEN "panicked"
                    ELSE IF Tail(data) = <<>> THEN "sleep" ELSE "process"
           /\ lock' = IF r.panic THEN "poisoned"
                      ELSE IF Tail(data) = <<>> THEN "free" ELSE "poll"
    /\ UNCHANGED <<rows, cols, overflow_checks, pty, child, read_log, uivars>>

\* tokio::time::sleep(16 ms).await, then the next iteration of the loop
PollSleep ==
    /\ pc = "sleep"
    /\ pc' = "read"
    /\ UNCHANGED <<rows, cols, overflow_checks, pty, child, state, grid, data, hist, seq_split,
                   read_log,
                   lock, uivars>>

Next == PollTryRead \/ PollProcessByte \/ PollSleep

Spec == Init /\ [][Next]_vars

(***************************************************************************)
(* process_sgr on its own: the attribute state and the parameter buffer    *)
(* are drawn from bounded sets and process_sgr is applied to them.         *)
(***************************************************************************)
\* parameter buffers: the bytes between ESC [ and the terminator
SgrBufs ==
    {   <<>>,                                        \* ""
        <<48>>,                                      \* "0"
        <<48, 48>>,                                  \* "00"
        <<51, 49>>,                                  \* "31"
        <<52, 52>>,                                  \* "44"
        <<49, 59, 51, 59, 52>>,                      \* "1;3;4"
        <<SEMICOLON>>,                               \* ";"
        <<63>>,                                      \* "?"
        <<SPACE>>,                                   \* " "
        <<59, 59>>,                                  \* ";;"
        <<50, 53, 54>>,                              \* "256"
        <<PLUS, 49>>,                                \* "+1"
        <<49, 59, 59, 52>>,                          \* "1;;4"
        <<48, 59, 49>>,                              \* "0;1"
        <<51, 56>>,                                  \* "38"
        <<51, 56, 59, 53>>,                          \* "38;5"
        <<51, 56, 59, 49>>,                          \* "38;1"
        <<51, 56, 59, 53, 59, 49>>,                  \* "38;5;1"
        <<51, 56, 59, 53, 59, 50, 51, 49>>,          \* "38;5;231"
        <<51, 56, 59, 50, 59, 50, 53, 53, 59, 48, 59, 48>>,  \* "38;2;255;0;0"
        <<52, 56>>,                                  \* "48"
        <<52, 56, 59, 53>>,                          \* "48;5"
        <<52, 56, 59, 52>>,                          \* "48;4"
        <<52, 56, 59, 53, 59, 50, 51, 50>>,          \* "48;5;232"
        <<49, 59, 51, 56, 59, 53, 59, 57, 59, 52>>,  \* "1;38;5;9;4"
        <<51, 56, 59, 53, 59, 51, 56, 59, 53, 59, 50>>  \* "38;5;38;5;2"
    }

\* attribute states the SGR codes can produce
SgrStates ==
    {[FreshState EXCEPT !.fg = f, !.bg = b, !.bold = bo, !.dim = d, !.italic = it,
                        !.underline = u, !.escape_state = "Csi", !.escape_buf = buf] :
        f \in {DefaultFg, <<205, 49, 49>>}, b \in {DefaultBg, <<36, 114, 200>>},
        bo \in BOOLEAN, d \in BOOLEAN, it \in BOOLEAN, u \in BOOLEAN,
        buf \in SgrBufs}

InitSgr ==
    /\ rows = 1
    /\ cols = 1
    /\ overflow_checks = TRUE
    /\ pty = "None"
    /\ child = NoChild
    /\ state \in SgrStates
    /\ grid = GridNew(rows, cols)
    /\ pc = "sgr"
    /\ data = <<>>
    /\ hist = <<>>
    /\ seq_split = FALSE
    /\ read_log = <<>>
    /\ UiInit

\* process_sgr(state), the state before it kept in the history
SgrApply ==
    /\ pc = "sgr"
    /\ Len(hist) < MaxApply
    /\ state' = process_sgr(state)
    /\ hist' = Append(hist, [byte |-> LOWER_M, state |-> state, grid |-> grid,
                             underflow |-> FALSE])
    /\ UNCHANGED <<rows, cols, overflow_checks, pty, child, grid, pc, data, seq_split,
                   read_log,
                   lock, uivars>>

NextSgr == SgrApply

SpecSgr == InitSgr /\ [][NextSgr]_vars

(***************************************************************************)
(* Properties                                                              *)
(***************************************************************************)
\* the bytes handed to process_byte so far, in order
Consumed == [i \in 1 .. Len(hist) |-> hist[i].byte]

\* the last history record: the byte processed last and the state before it
Last == hist[Len(hist)]

\* the state after the i-th processed byte
PostState(i) == IF i < Len(hist) THEN hist[i + 1].state ELSE state

\* the grid after the i-th processed byte
PostGrid(i) == IF i < Len(hist) THEN hist[i + 1].grid ELSE grid

\* the attribute part of a TermState
Attrs(s) == <<s.fg, s.bg, s.bold, s.dim, s.italic, s.underline>>

DefaultAttrs == <<DefaultFg, DefaultBg, FALSE, FALSE, FALSE, FALSE>>

CursorInRange(s) ==
    /\ 0 <= s.cursor_row /\ s.cursor_row < rows
    /\ 0 <= s.cursor_col /\ s.cursor_col < cols

\* C1: in a grid with rows >= 1 and cols >= 1 the cursor is inside the grid
\* after every processed byte (so in every reachable state).
C1_CursorInRange ==
    (rows >= 1 /\ cols >= 1) => CursorInRange(state)

\* in a grid of two rows and columns or more a tab has been clamped to the
\* last column and a printable byte has wrapped from the last column of the
\* last row, scrolling the grid
C1_Witness ==
    /\ rows >= 2 /\ cols >= 2
    /\ CursorInRange(state)
    /\ \E i \in 1 .. Len(hist) :
          /\ hist[i].state.escape_state = "Normal"
          /\ hist[i].byte = TAB
          /\ PostState(i).cursor_col = cols - 1
    /\ \E i \in 1 .. Len(hist) :
          /\ hist[i].state.escape_state = "Normal"
          /\ hist[i].byte = 65
          /\ hist[i].state.cursor_col = cols - 1
          /\ hist[i].state.cursor_row = rows - 1

\* C2: process_byte never fails: no byte, in no parser state and for no
\* rows/cols a session can be built with, makes `cols - 1` or `rows - 1`
\* underflow or the coroutine panic.
C2_NeverFails ==
    /\ pc # "panicked"
    /\ \A i \in 1 .. Len(hist) : ~hist[i].underflow

\* C3: the terminal state depends only on the order of the bytes, not on the
\* chunks they arrived in: it is the state that processing all of them as one
\* chunk from the fresh session gives.
C3_ChunkingIndependent ==
    LET one == process_chunk(FreshState, GridNew(rows, cols), Consumed,
                             rows, cols, overflow_checks)
    IN  /\ state = one.state
        /\ grid = one.grid
        /\ (pc = "panicked") = one.panic

\* the whole output has been processed, in more than one chunk, one of which
\* ended inside an escape sequence that went on to change the attributes
C3_Witness ==
    /\ rows >= 1 /\ cols >= 2
    /\ seq_split
    /\ pc = "sleep"
    /\ child.rest = <<>> /\ child.free = 0
    /\ state.escape_state = "Normal"
    /\ Attrs(state) # DefaultAttrs
    /\ \E i \in 1 .. Len(hist) : hist[i].state.escape_state = "Normal" /\ hist[i].byte = 65

\* the Cell that the printable byte of history record h wrote
CellWritten(h) ==
    [c |-> h.byte, fg |-> h.state.fg, bg |-> h.state.bg,
     style |-> [bold |-> h.state.bold, dim |-> h.state.dim,
                italic |-> h.state.italic, underline |-> h.state.underline,
                strikethrough |-> FALSE, inverse |-> FALSE]]

\* ga is gb scrolled once: every row moved up by one, the last row blank
ScrolledOnce(gb, ga) ==
    /\ DOMAIN ga = DOMAIN gb
    /\ \A r \in 0 .. rows - 2 : \A c \in 0 .. cols - 1 : ga[<<r, c>>] = gb[<<r + 1, c>>]
    /\ \A c \in 0 .. cols - 1 : ga[<<rows - 1, c>>] = DefaultCell

\* the grid of history record h with the Cell of its byte written at the cursor
WrittenGrid(h) ==
    [p \in DOMAIN h.grid |->
        IF p = <<h.state.cursor_row, h.state.cursor_col>> THEN CellWritten(h)
        ELSE h.grid[p]]

IsPrintableAscii(b) == b >= 32 /\ b <= 126

\* the first of the last `cols` processed bytes
RunStart == Len(hist) - cols + 1

\* the last `cols` processed bytes were printable ASCII and the parser was in
\* Normal before the first of them
C4_Run ==
    /\ rows >= 1 /\ cols >= 1
    /\ Len(hist) >= cols
    /\ hist[RunStart].state.escape_state = "Normal"
    /\ \A i \in RunStart .. Len(hist) : IsPrintableAscii(hist[i].byte)

\* C4 as claimed: after cols printable ASCII bytes from a Normal state the
\* cursor is in column 0, one row down, or on the last row of a scrolled grid.
C4_Original ==
    C4_Run =>
        LET pre == hist[RunStart].state
        IN  /\ state.cursor_col = 0
            /\ IF pre.cursor_row < rows - 1
               THEN state.cursor_row = pre.cursor_row + 1
               ELSE state.cursor_row = rows - 1

\* C4 amended: after cols printable ASCII bytes from a Normal state the cursor
\* is back in the column it started in (column 0 when it started there),
\* exactly one of the bytes wrapped, and the cursor is one row down, or, when
\* it started on the last row, the wrap scrolled the grid once and the cursor
\* is on the last row.
C4_WrapsOnce ==
    C4_Run =>
        LET pre == hist[RunStart].state
            wraps == {k \in RunStart .. Len(hist) : hist[k].state.cursor_col = cols - 1}
        IN  /\ state.cursor_col = pre.cursor_col
            /\ (pre.cursor_col = 0 => state.cursor_col = 0)
            /\ Cardinality(wraps) = 1
            /\ IF pre.cursor_row < rows - 1
               THEN /\ state.cursor_row = pre.cursor_row + 1
                    /\ \A k \in RunStart .. Len(hist) : PostGrid(k) = WrittenGrid(hist[k])
               ELSE /\ state.cursor_row = rows - 1
                    /\ \A k \in RunStart .. Len(hist) :
                          IF k \in wraps
                          THEN ScrolledOnce(WrittenGrid(hist[k]), PostGrid(k))
                          ELSE PostGrid(k) = WrittenGrid(hist[k])

\* a run of cols >= 2 printable bytes that started on the last row, away from
\* column 0, has scrolled the grid
C4_Witness ==
    /\ C4_Run
    /\ cols >= 2 /\ rows >= 2
    /\ hist[RunStart].state.cursor_row = rows - 1
    /\ hist[RunStart].state.cursor_col = 1
    /\ state.cursor_col = 1

\* C5: a newline on the last row, or a printable byte wrapping from the last
\* column of the last row, scrolls the grid exactly once (every row moves up by
\* one, the last row becomes blank, row 0 is lost) and leaves the cursor on the
\* last row; a newline on another row only increments cursor_row.
C5_ScrollOnce ==
    (rows >= 1 /\ Len(hist) > 0 /\ Last.state.escape_state = "Normal") =>
        /\ (Last.byte = NL /\ Last.state.cursor_row = rows - 1) =>
              /\ ScrolledOnce(Last.grid, grid)
              /\ state = Last.state
        /\ (Last.byte = NL /\ Last.state.cursor_row # rows - 1) =>
              /\ grid = Last.grid
              /\ state = [Last.state EXCEPT !.cursor_row = Last.state.cursor_row + 1]
        /\ (/\ IsPrintableAscii(Last.byte) \/ (Last.byte >= 128 /\ Last.byte <= 255)
            /\ Last.state.cursor_row = rows - 1
            /\ Last.state.cursor_col = cols - 1) =>
              /\ ScrolledOnce(WrittenGrid(Last), grid)
              /\ state = [Last.state EXCEPT !.cursor_col = 0]

\* a newline was processed on the last row of a 3-row grid whose rows 1 and 2
\* held text
C5_Witness ==
    /\ rows = 3
    /\ Len(hist) > 0
    /\ Last.state.escape_state = "Normal"
    /\ Last.byte = NL
    /\ Last.state.cursor_row = 2
    /\ \E c \in 0 .. cols - 1 : Last.grid[<<1, c>>].c # SPACE
    /\ \E c \in 0 .. cols - 1 : Last.grid[<<2, c>>].c # SPACE
    /\ \E c \in 0 .. cols - 1 : grid[<<1, c>>].c # SPACE

\* record i starts a CSI sequence that the last processed byte completes with
\* a terminator other than 'm'
CsiEndsNow(i) ==
    /\ hist[i].byte = ESC
    /\ hist[i].state.escape_state = "Normal"
    /\ i + 2 <= Len(hist)
    /\ hist[i + 1].byte = LBRACKET
    /\ \A j \in i + 2 .. Len(hist) - 1 :
          ~((hist[j].byte >= 65 /\ hist[j].byte <= 90)
            \/ (hist[j].byte >= 97 /\ hist[j].byte <= 122))
    /\ (Last.byte >= 65 /\ Last.byte <= 90) \/ (Last.byte >= 97 /\ Last.byte <= 122)
    /\ Last.byte # LOWER_M

RedA_Stream == <<ESC, LBRACKET, 51, 49, LOWER_M, 65>>

\* 'A' in red on the default background, no style flag set
RedA == [c |-> 65, fg |-> <<205, 49, 49>>, bg |-> DefaultBg, style |-> DefaultStyle]

\* ESC [ 3 1 m A in a fresh session: a red 'A' at (0,0), the cursor at (0,1),
\* every other cell blank, the parser in Normal
C7_EndToEnd ==
    Consumed = RedA_Stream =>
        /\ GridHas(grid, 0, 0)
        /\ grid[<<0, 0>>] = RedA
        /\ state.cursor_col = 1
        /\ state.cursor_row = 0
        /\ \A p \in DOMAIN grid \ {<<0, 0>>} : grid[p] = DefaultCell
        /\ state.escape_state = "Normal"

\* a printable byte written in Normal state stores a Cell carrying the byte
\* and the attribute state current at that moment: at the cursor, or one row
\* up when the write scrolled the grid
C7_CellCarriesAttrs ==
    (/\ Len(hist) > 0
     /\ Last.state.escape_state = "Normal"
     /\ IsPrintableAscii(Last.byte) \/ (Last.byte >= 128 /\ Last.byte <= 255)
     /\ GridHas(Last.grid, Last.state.cursor_row, Last.state.cursor_col)) =>
        IF Last.state.cursor_row = rows - 1 /\ Last.state.cursor_col = cols - 1
        THEN rows >= 2 => grid[<<rows - 2, cols - 1>>] = CellWritten(Last)
        ELSE grid = WrittenGrid(Last)

\* C7 as claimed, for every session whose grid has a cell (0,0)
C7_Original ==
    /\ (rows >= 1 /\ cols >= 1) => C7_EndToEnd
    /\ C7_CellCarriesAttrs

\* C7 amended: ESC [ 3 1 m A fed into a fresh session with rows >= 1 and
\* cols >= 2 leaves a red 'A' with default bg and no style flags at (0,0),
\* cursor (0,1), every other cell default and the parser in Normal; and a
\* printable byte written in Normal state stores a Cell carrying exactly the
\* attribute state current at that moment.
C7_RedA ==
    /\ (rows >= 1 /\ cols >= 2) => C7_EndToEnd
    /\ C7_CellCarriesAttrs

\* ESC [ 3 1 m A has been processed in a session of two columns or more
C7_Witness ==
    /\ rows >= 1 /\ cols >= 2
    /\ Consumed = RedA_Stream
    /\ grid[<<0, 0>>] = RedA
    /\ state.fg = <<205, 49, 49>>

(***************************************************************************)
(* Properties of process_sgr, checked under SpecSgr.  History record i     *)
(* holds the state process_sgr was applied to the i-th time; its           *)
(* escape_buf is the parameter buffer.                                     *)
(***************************************************************************)
\* the parameters of the buffer after splitting on ';' and dropping the
\* segments that are no number in 0..255: the decimal digits of the segment,
\* after at most one leading '+'
Digits(seg) == IF seg # <<>> /\ seg[1] = PLUS THEN Tail(seg) ELSE seg

RECURSIVE Decimal(_)
Decimal(ds) ==
    IF ds = <<>> THEN 0 ELSE 10 * Decimal(SubSeq(ds, 1, Len(ds) - 1)) + (ds[Len(ds)] - 48)

IsNumber(seg) ==
    /\ Digits(seg) # <<>>
    /\ \A k \in 1 .. Len(Digits(seg)) : Digits(seg)[k] >= 48 /\ Digits(seg)[k] <= 57
    /\ Decimal(Digits(seg)) <= 255

\* the segments of buf between its ';' separators
Segments(buf) ==
    LET seps == <<0>> \o SelectSeq([k \in 1 .. Len(buf) |-> k],
                                   LAMBDA k : buf[k] = SEMICOLON) \o <<Len(buf) + 1>>
    IN  [k \in 1 .. Len(seps) - 1 |-> SubSeq(buf, seps[k] + 1, seps[k + 1] - 1)]

ParsedParams(buf) ==
    LET good == SelectSeq(Segments(buf), IsNumber)
    IN  [k \in 1 .. Len(good) |-> Decimal(Digits(good[k]))]

\* C8: SGR with the parameter bytes "0" or with none sets fg and bg to the
\* defaults and clears bold, dim, italic and underline, whatever the
\* attributes were; a second reset changes nothing; the result is the
\* attribute state of a fresh session.
C8_ResetIdempotent ==
    \A i \in 1 .. Len(hist) :
        hist[i].state.escape_buf \in {<<>>, <<48>>} =>
            /\ Attrs(PostState(i)) = DefaultAttrs
            /\ Attrs(PostState(i)) = Attrs(FreshState)
            /\ i >= 2 => PostState(i) = PostState(i - 1)
            /\ PostState(i) = [hist[i].state EXCEPT !.fg = DefaultFg, !.bg = DefaultBg,
                                   !.bold = FALSE, !.dim = FALSE, !.italic = FALSE,
                                   !.underline = FALSE]

\* "0" has been applied twice to a state with colours and every flag set
C8_Witness ==
    /\ Len(hist) = 2
    /\ hist[1].state.escape_buf = <<48>>
    /\ hist[1].state.fg # DefaultFg /\ hist[1].state.bg # DefaultBg
    /\ hist[1].state.bold /\ hist[1].state.dim
    /\ hist[1].state.italic /\ hist[1].state.underline
    /\ Attrs(hist[2].state) = DefaultAttrs
    /\ Attrs(state) = DefaultAttrs

\* C9: whenever no segment of the buffer parses, so that the parameter list
\* is empty, the sequence is a reset: this covers the empty buffer and also
\* buffers such as ";" or "?".
C9_EmptyListResets ==
    \A i \in 1 .. Len(hist) :
        ParsedParams(hist[i].state.escape_buf) = <<>> =>
            Attrs(PostState(i)) = DefaultAttrs

\* the parameters of history record i when its buffer is not empty and its
\* first parameter is 38 or 48
Extended(i) ==
    /\ ParsedParams(hist[i].state.escape_buf) # <<>>
    /\ ParsedParams(hist[i].state.escape_buf)[1] \in {38, 48}

Honoured(p) == Len(p) >= 3 /\ p[2] = 5

Paint(s, code, colour) ==
    IF code = 38 THEN [s EXCEPT !.fg = colour] ELSE [s EXCEPT !.bg = colour]

ParamsAgree ==
    \A i \in 1 .. Len(hist) :
        LET buf == hist[i].state.escape_buf
        IN  sgr_params(buf) = IF buf = <<>> THEN <<0>> ELSE ParsedParams(buf)

(***************************************************************************)
(* The 256-colour palette: process_sgr applied to the buffers "38;5;n" and *)
(* "48;5;n" for every index n, and to the buffers of the 32 literal colour *)
(* codes.                                                                  *)
(***************************************************************************)
\* the ASCII decimal digits of n
RECURSIVE Ascii(_)
Ascii(n) == IF n < 10 THEN <<48 + n>> ELSE Append(Ascii(n \div 10), 48 + (n % 10))

\* the codes 30-37, 40-47, 90-97 and 100-107
LiteralCodes == (30 .. 37) \cup (40 .. 47) \cup (90 .. 97) \cup (100 .. 107)

PaletteBufs ==
    {Ascii(code) \o <<SEMICOLON, 53, SEMICOLON>> \o Ascii(n) : code \in {38, 48}, n \in 0 .. 255}
    \cup {Ascii(code) : code \in LiteralCodes}

InitPalette ==
    /\ rows = 1
    /\ cols = 1
    /\ overflow_checks = TRUE
    /\ pty = "None"
    /\ child = NoChild
    /\ state \in {[FreshState EXCEPT !.escape_state = "Csi", !.escape_buf = buf] :
                     buf \in PaletteBufs}
    /\ grid = GridNew(rows, cols)
    /\ pc = "sgr"
    /\ data = <<>>
    /\ hist = <<>>
    /\ seq_split = FALSE
    /\ read_log = <<>>
    /\ UiInit

SpecPalette == InitPalette /\ [][NextSgr]_vars

\* the palette as the colour tables define it: the sixteen literal colours,
\* the 6x6x6 cube over the levels 0, 95, 135, 175, 215, 255, the grey ramp
PaletteLiteral ==
    <<  <<0, 0, 0>>, <<205, 49, 49>>, <<13, 188, 121>>, <<229, 229, 16>>,
        <<36, 114, 200>>, <<188, 63, 188>>, <<17, 168, 205>>, <<229, 229, 229>>,
        <<102, 102, 102>>, <<241, 76, 76>>, <<35, 209, 139>>, <<245, 245, 67>>,
        <<59, 142, 234>>, <<214, 112, 214>>, <<41, 184, 219>>, <<255, 255, 255>> >>

CubeLevel(v) == IF v = 0 THEN 0 ELSE 55 + 40 * v

PaletteColour(n) ==
    IF n <= 15 THEN PaletteLiteral[n + 1]
    ELSE IF n <= 231
    THEN <<CubeLevel(((n - 16) \div 36) % 6), CubeLevel(((n - 16) \div 6) % 6),
           CubeLevel((n - 16) % 6)>>
    ELSE <<8 + 10 * (n - 232), 8 + 10 * (n - 232), 8 + 10 * (n - 232)>>

\* the index and the target of the buffer "38;5;n" or "48;5;n"; n = -1 for
\* the buffers of the literal codes
PaletteIndex(buf) ==
    IF Len(ParsedParams(buf)) = 3 THEN ParsedParams(buf)[3] ELSE -1

\* C11: for every index n in 0..255, "38;5;n" sets fg and "48;5;n" sets bg to
\* the palette colour of n, computed without overflow of the 8-bit channels:
\* the literal table for 0..15, the cube 0 / 55+40v for 16..231, the ramp
\* 8+10(n-232) for 232..255; and the literal codes 30+k, 40+k, 90+k, 100+k set
\* the colours of the indices k, k, 8+k, 8+k.
C11_PaletteExact ==
    \A i \in 1 .. Len(hist) :
        LET pre == hist[i].state
            post == PostState(i)
            p == ParsedParams(pre.escape_buf)
            n == PaletteIndex(pre.escape_buf)
        IN  /\ n # -1 =>
                  /\ \A ch \in 1 .. 3 : PaletteColour(n)[ch] \in 0 .. 255
                  /\ post = Paint(pre, p[1], PaletteColour(n))
            /\ n = -1 =>
                  LET code == p[1]
                      k == code % 10
                  IN  /\ code \in 30 .. 37 => post = [pre EXCEPT !.fg = PaletteColour(k)]
                      /\ code \in 40 .. 47 => post = [pre EXCEPT !.bg = PaletteColour(k)]
                      /\ code \in 90 .. 97 => post = [pre EXCEPT !.fg = PaletteColour(8 + k)]
                      /\ code \in 100 .. 107 => post = [pre EXCEPT !.bg = PaletteColour(8 + k)]
            /\ pre.escape_buf = <<51, 56, 59, 53, 59, 49, 54>> => post.fg = <<0, 0, 0>>
            /\ pre.escape_buf = <<51, 56, 59, 53, 59, 50, 51, 49>> => post.fg = <<255, 255, 255>>
            /\ pre.escape_buf = <<51, 56, 59, 53, 59, 50, 51, 50>> => post.fg = <<8, 8, 8>>
            /\ pre.escape_buf = <<51, 56, 59, 53, 59, 50, 53, 53>> => post.fg = <<238, 238, 238>>

\* "48;5;110" has set the background to the cube colour (135, 175, 215)
C11_Witness ==
    /\ Len(hist) >= 1
    /\ hist[1].state.escape_buf = <<52, 56, 59, 53, 59, 49, 49, 48>>
    /\ state.bg = <<135, 175, 215>>
    /\ state.fg = DefaultFg

(***************************************************************************)
(* process_byte on its own: the poll loop holds a chunk of one byte, any   *)
(* of the 256, or a short chunk with an abandoned escape sequence, and the *)
(* session is in a state that earlier output has left:                     *)
(* the cursor anywhere in the grid, the parser in any of its states, the   *)
(* grid blank or written up to the cursor's row.                           *)
(***************************************************************************)
ByteSizes == {<<1, 0>>, <<1, 1>>, <<2, 2>>, <<2, 10>>, <<1, 17>>}

\* the parser states: escape_buf holds bytes only inside a CSI sequence
ParserStates ==
    {   [escape_state |-> "Normal", escape_buf |-> <<>>],
        [escape_state |-> "Escape", escape_buf |-> <<>>],
        [escape_state |-> "Csi", escape_buf |-> <<>>],
        [escape_state |-> "Csi", escape_buf |-> <<51, 49>>] }

\* the Cell 'A' written after ESC [ 1 ; 3 1 m
BoldRedA ==
    [c |-> 65, fg |-> <<205, 49, 49>>, bg |-> DefaultBg,
     style |-> [DefaultStyle EXCEPT !.bold = TRUE]]

\* the grid after bold red 'A's were written up to the last column but one of
\* row crow: the rows below the cursor are still blank
WrittenUpTo(r, c, crow) ==
    [p \in (0 .. r - 1) \X (0 .. c - 1) |->
        IF p[1] < crow \/ (p[1] = crow /\ p[2] < c - 1) THEN BoldRedA ELSE DefaultCell]

\* chunks of more than one byte: escape sequences that are abandoned
ByteChunks == {<<ESC, 65>>, <<ESC, NL>>, <<ESC, ESC, LBRACKET>>}

InitByte ==
    /\ \E size \in ByteSizes : rows = size[1] /\ cols = size[2]
    /\ overflow_checks \in (IF cols = 0 THEN BOOLEAN ELSE {TRUE})
    /\ pty = "Some"
    /\ child = NoChild
    /\ \E crow \in 0 .. rows - 1, ccol \in 0 .. (IF cols = 0 THEN 0 ELSE cols - 1),
          ps \in ParserStates, written \in BOOLEAN :
          /\ state = IF written
                     THEN [FreshState EXCEPT !.cursor_row = crow, !.cursor_col = ccol,
                                             !.fg = <<205, 49, 49>>, !.bold = TRUE,
                                             !.escape_state = ps.escape_state,
                                             !.escape_buf = ps.escape_buf]
                     ELSE [FreshState EXCEPT !.cursor_row = crow, !.cursor_col = ccol,
                                             !.escape_state = ps.escape_state,
                                             !.escape_buf = ps.escape_buf]
          /\ grid = IF written THEN WrittenUpTo(rows, cols, crow) ELSE GridNew(rows, cols)
    /\ pc = "process"
    /\ data \in {<<b>> : b \in 0 .. 255} \cup ByteChunks
    /\ hist = <<>>
    /\ seq_split = FALSE
    /\ read_log = data
    /\ lock = "poll"
    /\ closed = FALSE
    /\ key = NoKey
    /\ snapshot = NoSnapshot

SpecByte == InitByte /\ [][PollProcessByte]_vars

\* C12: in a grid with cols >= 1, a tab byte processed in Normal state sets
\* cursor_col to min((cursor_col / 8 + 1) * 8, cols - 1) and changes nothing
\* else; the cursor does not move left, stays in its row and in the grid, and
\* the grid is not scrolled; from column 3 of a width-10 grid it goes to
\* column 8, from the last column it stays there.
C12_TabStop ==
    \A i \in 1 .. Len(hist) :
        (cols >= 1 /\ hist[i].byte = TAB /\ hist[i].state.escape_state = "Normal") =>
            LET pre == hist[i].state
                post == PostState(i)
                stop == (pre.cursor_col \div 8 + 1) * 8
            IN  /\ post = [pre EXCEPT !.cursor_col = IF stop <= cols - 1 THEN stop
                                                     ELSE cols - 1]
                /\ PostGrid(i) = hist[i].grid
                /\ post.cursor_col >= pre.cursor_col
                /\ post.cursor_col <= cols - 1
                /\ post.cursor_row = pre.cursor_row
                /\ (cols = 10 /\ pre.cursor_col = 3) => post.cursor_col = 8
                /\ pre.cursor_col = cols - 1 => post.cursor_col = cols - 1
                /\ ~hist[i].underflow
                /\ pc # "panicked"

\* a tab from column 3 of a written width-10 grid has moved the cursor to
\* column 8
C12_Witness ==
    /\ cols = 10
    /\ Len(hist) = 1
    /\ hist[1].byte = TAB
    /\ hist[1].state.escape_state = "Normal"
    /\ hist[1].state.cursor_col = 3
    /\ hist[1].state.cursor_row = 1
    /\ hist[1].grid[<<1, 3>>] = BoldRedA
    /\ state.cursor_col = 8

(***************************************************************************)
(* The key handler, the renderer and the transport.  The coroutine, the    *)
(* key handler and the render run on the one thread of the Dioxus virtual  *)
(* DOM (the coroutine's future holds the grid Signal and is not Send): a   *)
(* key event or a render is served only while the coroutine is suspended   *)
(* at its `.await`, that is with pc = "sleep", or with pc = "read" when    *)
(* the timer has fired and the coroutine has not been polled yet.          *)
(***************************************************************************)
NamedKeys ==
    {"Enter", "Backspace", "Tab", "Escape", "ArrowUp", "ArrowDown", "ArrowRight",
     "ArrowLeft", "Home", "End", "Delete"}

\* keys of the `_ => String::new()` arm
OtherKeys == {"F1", "Shift", "PageUp"}

\* the text of Key::Character, in UTF-8: a z A 1 ` { e-acute "ab" and ""
Chars == {<<97>>, <<122>>, <<65>>, <<49>>, <<96>>, <<123>>, <<195, 169>>, <<97, 98>>, <<>>}

\* a KeyboardEvent: its key, the text of a Character key, the control modifier
KeyEvents ==
    {[key |-> k, c |-> <<>>, ctrl |-> m] : k \in NamedKeys \cup OtherKeys, m \in BOOLEAN}
    \cup {[key |-> "Character", c |-> ch, ctrl |-> m] : ch \in Chars, m \in BOOLEAN}

is_ascii_lowercase(ch) == ch >= 97 /\ ch <= 122

\* key_to_string with Backspace sent as BS (0x08) instead of DEL (0x7F)
key_to_string_bs(evt) ==
    CASE evt.key = "Enter" -> <<CR>>
      [] evt.key = "Backspace" -> <<BS>>
      [] evt.key = "Tab" -> <<TAB>>
      [] evt.key = "Escape" -> <<ESC>>
      [] evt.key = "ArrowUp" -> <<ESC, LBRACKET, 65>>
      [] evt.key = "ArrowDown" -> <<ESC, LBRACKET, 66>>
      [] evt.key = "ArrowRight" -> <<ESC, LBRACKET, 67>>
      [] evt.key = "ArrowLeft" -> <<ESC, LBRACKET, 68>>
      [] evt.key = "Home" -> <<ESC, LBRACKET, 72>>
      [] evt.key = "End" -> <<ESC, LBRACKET, 70>>
      [] evt.key = "Delete" -> <<ESC, LBRACKET, 51, 126>>
      [] evt.key = "Character" ->
            IF evt.ctrl /\ Len(evt.c) = 1 /\ is_ascii_lowercase(evt.c[1])
            THEN <<U8(U8(evt.c[1] - 97) + 1)>>
            ELSE evt.c
      [] OTHER -> <<>>

\* key_to_string: the bytes of the terminal input string of a keyboard event
key_to_string(evt) ==
    CASE evt.key = "Enter" -> <<CR>>
      [] evt.key = "Backspace" -> <<DEL>>
      [] evt.key = "Tab" -> <<TAB>>
      [] evt.key = "Escape" -> <<ESC>>
      [] evt.key = "ArrowUp" -> <<ESC, LBRACKET, 65>>
      [] evt.key = "ArrowDown" -> <<ESC, LBRACKET, 66>>
      [] evt.key = "ArrowRight" -> <<ESC, LBRACKET, 67>>
      [] evt.key = "ArrowLeft" -> <<ESC, LBRACKET, 68>>
      [] evt.key = "Home" -> <<ESC, LBRACKET, 72>>
      [] evt.key = "End" -> <<ESC, LBRACKET, 70>>
      [] evt.key = "Delete" -> <<ESC, LBRACKET, 51, 126>>
      [] evt.key = "Character" ->
            IF evt.ctrl /\ Len(evt.c) = 1 /\ is_ascii_lowercase(evt.c[1])
            THEN <<U8(U8(evt.c[1] - 97) + 1)>>
            ELSE evt.c
      [] OTHER -> <<>>

\* Pty::write: Ok while the transport is open, an I/O error once it is closed
pty_write(cl) == IF cl THEN "Err" ELSE "Ok"

\* onkeydown that writes without looking whether there is a pty
onkeydown_nopty(evt, p, cl, lk) ==
    LET key_str == key_to_string(evt)
    IN  IF key_str = <<>>
        THEN [evt |-> evt, locked |-> FALSE, wrote |-> <<>>, result |-> "none",
              reported |-> FALSE]
        ELSE [evt |-> evt, locked |-> TRUE, wrote |-> key_str, result |-> pty_write(cl),
              reported |-> FALSE]

\* onkeydown: what the handler does with a key event: whether it took the
\* Mutex, the bytes it handed to pty.write, the result of the write, and
\* whether it passed a failure on (`let _ =` discards the result)
onkeydown(evt, p, cl, lk) ==
    LET key_str == key_to_string(evt)
    IN  IF key_str = <<>>
        THEN [evt |-> evt, locked |-> FALSE, wrote |-> <<>>, result |-> "none",
              reported |-> FALSE]
        ELSE IF lk = "poisoned"
        THEN [evt |-> evt, locked |-> FALSE, wrote |-> <<>>, result |-> "none",
              reported |-> FALSE]
        ELSE IF p = "Some"
        THEN [evt |-> evt, locked |-> TRUE, wrote |-> key_str, result |-> pty_write(cl),
              reported |-> FALSE]
        ELSE [evt |-> evt, locked |-> TRUE, wrote |-> <<>>, result |-> "none",
              reported |-> FALSE]

\* the coroutine is suspended at its await
Suspended == pc \in {"read", "sleep"}

\* a key event: the handler runs to its end, the guard of the Mutex is dropped
\* there
KeyDown ==
    /\ Suspended
    /\ \E evt \in KeyEvents :
          /\ key_to_string(evt) # <<>> => lock \in {"free", "poisoned"}
          /\ key' = onkeydown(evt, pty, closed, lock)
    /\ UNCHANGED <<rows, cols, overflow_checks, pty, child, state, grid, pc, data, hist,
                   seq_split, read_log, lock, closed, snapshot>>

\* a render: `grid.read().iter_rows()` reads the grid signal; TermState and its
\* Mutex are not touched
Render ==
    /\ Suspended
    /\ snapshot' = [rendered |-> TRUE, grid |-> grid, held |-> "free"]
    /\ UNCHANGED <<rows, cols, overflow_checks, pty, child, state, grid, pc, data, hist,
                   seq_split, read_log, lock, closed, key>>

\* the child process exits: the transport is closed, what the child had not
\* written yet never arrives
ChildExit ==
    /\ pty = "Some"
    /\ ~closed
    /\ closed' = TRUE
    /\ child' = NoChild
    /\ UNCHANGED <<rows, cols, overflow_checks, pty, state, grid, pc, data, hist,
                   seq_split, read_log, lock, key, snapshot>>

UiSizes == {<<1, 1>>, <<2, 2>>}

UiScripts ==
    {   <<65, 66, 67>>,                              \* A B C
        <<ESC, LBRACKET, 49, LOWER_M, 65>>           \* ESC [ 1 m A
    }

InitUi ==
    /\ \E size \in UiSizes : rows = size[1] /\ cols = size[2]
    /\ overflow_checks = TRUE
    /\ pty \in {"Some", "None"}
    /\ child \in (IF pty = "Some" THEN {[rest |-> s, free |-> 0] : s \in UiScripts}
                  ELSE {NoChild})
    /\ state = FreshState
    /\ grid = GridNew(rows, cols)
    /\ pc = "read"
    /\ data = <<>>
    /\ hist = <<>>
    /\ seq_split = FALSE
    /\ read_log = <<>>
    /\ UiInit

Poll == PollTryRead \/ PollProcessByte \/ PollSleep

NextUi == Poll \/ KeyDown \/ Render \/ ChildExit

SpecUi == InitUi /\ [][NextUi]_vars

\* C13: when Pty::spawn failed (pty is None) the session has a blank grid and
\* keeps it: in every state every Cell is the default Cell, the cursor is at
\* (0,0), the attributes are the defaults and the parser is in Normal; the
\* coroutine is in its loop, never panicked, and can always take its next step;
\* no key press has handed anything to a transport.
C13_SpawnFailure ==
    pty = "None" =>
        /\ DOMAIN grid = (0 .. rows - 1) \X (0 .. cols - 1)
        /\ \A p \in DOMAIN grid : grid[p] = DefaultCell
        /\ state.cursor_row = 0 /\ state.cursor_col = 0
        /\ Attrs(state) = DefaultAttrs
        /\ state.escape_state = "Normal"
        /\ state = FreshState
        /\ hist = <<>>
        /\ pc \in {"read", "sleep"}
        /\ lock = "free"
        /\ ENABLED Poll
        /\ key.wrote = <<>>
        /\ key.result = "none"
        /\ snapshot.rendered => snapshot.grid = GridNew(rows, cols)

\* without a pty the coroutine has finished an iteration, the grid has been
\* rendered and the Enter key has been pressed
C13_Witness ==
    /\ pty = "None"
    /\ pc = "sleep"
    /\ snapshot.rendered
    /\ key.evt.key = "Enter"
    /\ key.locked
    /\ key.wrote = <<>>

\* C14: a key press whose write to the transport fails reports the failure to
\* its caller, leaves grid, cursor, attributes and parser state as they were
\* and leaves the polling coroutine where it was, able to go on.
C14_WriteFailureReported ==
    [][(key' # key /\ key'.result = "Err") =>
          /\ key'.reported
          /\ state' = state
          /\ grid' = grid
          /\ pc' = pc /\ pc' \in {"read", "sleep"}
          /\ lock' = "free"]_vars

\* the terminal input of the key mapping, for the keys that have one
KeyTable(k) ==
    CASE k = "Enter" -> <<13>>
      [] k = "Backspace" -> <<127>>
      [] k = "Tab" -> <<9>>
      [] k = "Escape" -> <<27>>
      [] k = "ArrowUp" -> <<27, 91, 65>>
      [] k = "ArrowDown" -> <<27, 91, 66>>
      [] k = "ArrowRight" -> <<27, 91, 67>>
      [] k = "ArrowLeft" -> <<27, 91, 68>>
      [] k = "Home" -> <<27, 91, 72>>
      [] k = "End" -> <<27, 91, 70>>
      [] k = "Delete" -> <<27, 91, 51, 126>>
      [] OTHER -> <<>>

\* a Character key with the control modifier whose text is one lowercase
\* ASCII letter
IsCtrlLetter(evt) ==
    /\ evt.key = "Character"
    /\ evt.ctrl
    /\ Len(evt.c) = 1
    /\ evt.c[1] >= 97 /\ evt.c[1] <= 122

\* the bytes the last key press had to send once the handler found a pty
SentFor(out) ==
    /\ (out # <<>> /\ pty = "Some") => key.wrote = out
    /\ (out = <<>> \/ pty = "None") => (key.wrote = <<>> /\ key.result = "none")

\* C15 as claimed: the named keys send their sequences, control with a single
\* lowercase letter sends the control code, every other key sends nothing and
\* writes nothing.
C15_Original ==
    key # NoKey =>
        IF key.evt.key \in NamedKeys THEN SentFor(KeyTable(key.evt.key))
        ELSE IF IsCtrlLetter(key.evt) THEN SentFor(<<key.evt.c[1] - 97 + 1>>)
        ELSE SentFor(<<>>)

\* C15 amended: the named keys send their sequences; a Character key sends
\* the control code (letter - 'a' + 1) when the control modifier is held and
\* its text is a single lowercase ASCII letter, and its own text otherwise;
\* every other key sends nothing; nothing is written to the transport for a
\* key that produces no output.
C15_KeyMapping ==
    key # NoKey =>
        IF key.evt.key \in NamedKeys THEN SentFor(KeyTable(key.evt.key))
        ELSE IF IsCtrlLetter(key.evt) THEN SentFor(<<key.evt.c[1] - 97 + 1>>)
        ELSE IF key.evt.key = "Character" THEN SentFor(key.evt.c)
        ELSE SentFor(<<>>)

\* control-z has sent 0x1A to the pty
C15_Witness ==
    /\ pty = "Some"
    /\ key.evt = [key |-> "Character", c |-> <<122>>, ctrl |-> TRUE]
    /\ key.wrote = <<26>>
    /\ key.result = "Ok"

\* C16: a byte other than '[' processed in Escape state returns the parser to
\* Normal and is discarded: grid, cursor, attributes and the parameter buffer
\* are as before the byte.  After ESC 'A' and after ESC '\n' processed from
\* Normal the session is as it was before the ESC; in ESC ESC '[' the second
\* ESC ends the sequence and the '[' is processed in Normal state and written
\* as a printable character at the cursor.
C16_EscapeAbandoned ==
    /\ \A i \in 1 .. Len(hist) :
          (hist[i].state.escape_state = "Escape" /\ hist[i].byte # LBRACKET) =>
              /\ PostState(i) = [hist[i].state EXCEPT !.escape_state = "Normal"]
              /\ PostGrid(i) = hist[i].grid
    /\ (Len(hist) = 2 /\ hist[1].state.escape_state = "Normal"
        /\ Consumed \in {<<ESC, 65>>, <<ESC, NL>>}) =>
              /\ state = hist[1].state
              /\ grid = hist[1].grid
    /\ (Len(hist) = 3 /\ hist[1].state.escape_state = "Normal"
        /\ Consumed = <<ESC, ESC, LBRACKET>> /\ cols >= 1) =>
              /\ hist[3].state = hist[1].state
              /\ hist[3].grid = hist[1].grid
              /\ IF hist[1].state.cursor_col < cols - 1
                 THEN /\ grid = WrittenGrid(hist[3])
                      /\ grid[<<hist[1].state.cursor_row, hist[1].state.cursor_col>>].c
                            = LBRACKET
                      /\ state = [hist[1].state EXCEPT
                                     !.cursor_col = hist[1].state.cursor_col + 1]
                 ELSE state.cursor_col = 0 /\ state.escape_state = "Normal"

\* ESC ESC '[' has written '[' at the cursor of a written grid, in the current
\* attributes
C16_Witness ==
    /\ Len(hist) = 3
    /\ Consumed = <<ESC, ESC, LBRACKET>>
    /\ hist[1].state.escape_state = "Normal"
    /\ hist[1].state.cursor_col = 3
    /\ hist[1].grid[<<0, 3>>] = BoldRedA
    /\ grid[<<0, 3>>] = [BoldRedA EXCEPT !.c = LBRACKET]
    /\ state.cursor_col = 4

\* C17: in every reachable state every Cell of the grid has strikethrough and
\* inverse false, whatever bytes were processed.
C17_NoStrikeNoInverse ==
    \A p \in DOMAIN grid :
        /\ grid[p].style.strikethrough = FALSE
        /\ grid[p].style.inverse = FALSE

\* ESC [ 1 m A has been processed: a bold 'A' written under an SGR attribute
\* is on the grid
C17_Witness ==
    /\ rows >= 1 /\ cols >= 2
    /\ Len(hist) >= 5
    /\ SubSeq(Consumed, 1, 5) = <<ESC, LBRACKET, 49, LOWER_M, 65>>
    /\ grid[<<0, 0>>].c = 65
    /\ grid[<<0, 0>>].style.bold
    /\ ~grid[<<0, 0>>].style.inverse

\* C18: every render takes its snapshot of the grid while it holds the Mutex
\* the coroutine holds for a whole chunk, and so at a moment when no chunk is
\* partly processed.
C18_RenderUnderLock ==
    [][snapshot' # snapshot =>
          /\ snapshot'.held = "render"
          /\ pc # "process"
          /\ data = <<>>]_vars

\* C19: a key press hands its bytes to the transport's write without having
\* taken the Mutex of TermState.
C19_WriteWithoutLock ==
    key.wrote # <<>> => ~key.locked

\* The coroutine is scheduled fairly: a timer that has been set fires, and a
\* coroutine that has been woken is polled.
SpecUiFair == SpecUi /\ WF_vars(Poll)

\* C20: once there is no transport (the spawn failed or the transport has
\* been closed) the poll loop eventually stops iterating: the coroutine
\* leaves its loop.
C20_PollTerminates ==
    (pty = "None" \/ closed) ~> (pc \notin {"read", "process", "sleep"})

\* the bytes read so far are the bytes applied so far followed by the rest of
\* the chunk in hand: nothing dropped, nothing applied twice, nothing out of
\* order
ReadIsApplied == read_log = Consumed \o data

\* the coroutine is at its await, or about to call try_read, only with the
\* chunk in hand fully processed
NoChunkInHand == (pc \in {"read", "sleep"}) => (data = <<>> /\ read_log = Consumed)

\* the session is what applying the bytes read and processed so far, in the
\* order they were read, to the fresh session gives
AppliedInOrder ==
    LET done == process_chunk(FreshState, GridNew(rows, cols),
                              SubSeq(read_log, 1, Len(hist)), rows, cols, overflow_checks)
    IN  state = done.state /\ grid = done.grid

\* C21: every chunk try_read returns is processed completely, byte by byte
\* in the order read, before the coroutine sleeps and before the next
\* try_read; no byte is dropped or applied twice; and with the coroutine
\* scheduled fairly every byte that has been read is eventually applied.
C21_ChunksApplied ==
    /\ [](ReadIsApplied /\ NoChunkInHand /\ AppliedInOrder)
    /\ (data # <<>>) ~> (data = <<>> /\ read_log = Consumed)

\* ESC [ 1 m A has been read in more than one chunk, one of them ending
\* inside the escape sequence, and all of it has been applied: a bold 'A' is
\* on the grid and the coroutine sleeps
C21_Witness ==
    /\ cols = 2
    /\ pc = "sleep"
    /\ seq_split
    /\ read_log = <<ESC, LBRACKET, 49, LOWER_M, 65>>
    /\ Consumed = read_log
    /\ data = <<>>
    /\ grid[<<0, 0>>].c = 65 /\ grid[<<0, 0>>].style.bold

\* C22: the Mutex is held by the coroutine exactly while it processes a chunk:
\* it is free after try_read found nothing, free again after the last byte of
\* a chunk and free during the sleep; it is free after every key press; the
\* coroutine can always take its next step and a key press can always be
\* served while the coroutine is suspended (no deadlock); the coroutine at
\* try_read gets the lock and moves on, and a chunk being processed ends, so a
\* key press waiting for the lock is served.
C22_NoLockBlocking ==
    /\ [](Suspended => lock = "free")
    /\ []((lock = "poll") <=> (pc = "process"))
    /\ [](lock \in {"free", "poll"})
    /\ [][key' # key => (lock = "free" /\ lock' = "free")]_vars
    /\ [](ENABLED Poll)
    /\ [](Suspended => ENABLED KeyDown)
    /\ (pc = "read") ~> (pc # "read")
    /\ (pc = "process") ~> Suspended

\* the coroutine has taken the lock for a chunk and released it, and the key
\* handler has taken it for a write that succeeded and released it
C22_Witness ==
    /\ pc = "sleep"
    /\ Len(hist) >= 2
    /\ lock = "free"
    /\ key.locked
    /\ key.result = "Ok"
    /\ key.wrote = <<CR>>

\* record i is the terminator 'm' of an SGR sequence that started at record j
\* with an ESC processed in Normal state
SgrFrom(j, i) ==
    /\ j + 2 <= i
    /\ hist[j].byte = ESC /\ hist[j].state.escape_state = "Normal"
    /\ hist[j + 1].byte = LBRACKET
    /\ hist[i].byte = LOWER_M
    /\ \A k \in j + 2 .. i : hist[k].state.escape_state = "Csi"

\* C23: in every reachable state, and in every state before it, the parameter
\* buffer is empty unless the parser is in Csi; it is empty on entering Csi;
\* and when the 'm' of an SGR sequence is processed the buffer holds exactly
\* the bytes that came after that sequence's ESC [, nothing of any earlier
\* sequence.
C23_BufferOnlyInCsi ==
    /\ state.escape_state # "Csi" => state.escape_buf = <<>>
    /\ \A i \in 1 .. Len(hist) :
          /\ hist[i].state.escape_state # "Csi" => hist[i].state.escape_buf = <<>>
          /\ (hist[i].state.escape_state = "Escape" /\ hist[i].byte = LBRACKET) =>
                (PostState(i).escape_state = "Csi" /\ PostState(i).escape_buf = <<>>)
          /\ \A j \in 1 .. i :
                SgrFrom(j, i) =>
                    hist[i].state.escape_buf = SubSeq(Consumed, j + 2, i - 1)

\* ESC [ 1 m A ESC [ H has been processed: a second CSI sequence after a
\* first one that had a parameter, the buffer empty again and bold still set
C23_Witness ==
    /\ Consumed = <<ESC, LBRACKET, 49, LOWER_M, 65, ESC, LBRACKET, 72>>
    /\ hist[4].state.escape_buf = <<49>>
    /\ hist[8].state.escape_state = "Csi"
    /\ hist[8].state.escape_buf = <<>>
    /\ state.escape_state = "Normal"
    /\ state.escape_buf = <<>>
    /\ state.bold

====
